---- MODULE Spec2Model ----
(***************************************************************************)
(* PyPIScraper (pypi_scraper/pypi_scraper.py): the fetch-parse-persist     *)
(* pipeline run() and the scheduler loop of __main__ that calls it.        *)
(*                                                                         *)
(* One action is one blocking step of the program: one HTTP attempt of a   *)
(* retried fetch, the link extraction, one write to disk, one pacing       *)
(* sleep, the scheduler's sleep.  The network, the file system and the     *)
(* random delays are the inputs, drawn with \E from small sets.            *)
(***************************************************************************)
EXTENDS Integers, Sequences, FiniteSets, TLC

(* ------------------------------ bounds -------------------------------- *)
\* scheduler iterations explored (the loop of __main__ is endless)
MaxRuns == 2
\* anchors in the listing of a homepage document
MaxPackages == 2

(* ------------------------- program constants -------------------------- *)
stop_max_attempt_number == 5

pypi_source_page == "pypi"
base_save_path == "data"

(* --------------------------- Python values ---------------------------- *)
\* Values are tagged records, so that a mapping, a string, a list and None
\* stay distinguishable, as they are to dict.get and to "is not None".
PyNone == [type |-> "null"]
PyStr(s) == [type |-> "string", val |-> s]
PyList == [type |-> "array"]
PyDict(f) == [type |-> "object", val |-> f]
EmptyDict == PyDict([k \in {} |-> PyNone])

IsDict(v) == v.type = "object"

\* dict.get(key, default); the caller checks IsDict(d) first (AttributeError)
DictGet(d, key, default) ==
    IF key \in DOMAIN d.val THEN d.val[key] ELSE default

\* "{}".format(v) for the values a name can take
Format(v) ==
    CASE v.type = "null" -> "None"
      [] v.type = "string" -> v.val
      [] v.type = "array" -> "[]"
      [] OTHER -> "{}"

(* ------------------------- package documents -------------------------- *)
Names == {"a", "b"}
Versions == {"1", "2"}

\* a well-formed metadata document of package n
Metadata(n, v) == PyDict([info |-> PyDict([name |-> PyStr(n), version |-> PyStr(v)])])

\* what response.json() can return for a body that decodes
Documents ==
    { Metadata(n, v) : n \in Names, v \in Versions }
    \cup { PyDict([info |-> PyDict([version |-> PyStr("1")])]),   \* info without name
           PyDict([releases |-> PyList]),                          \* no info at all
           PyDict([info |-> PyStr("a")]),                          \* info is no mapping
           PyList,                                                 \* body "[]"
           PyNone }                                                \* body "null"

\* a body that response.json() cannot decode
Malformed == [type |-> "malformed"]

PackageBodies == Documents \cup {Malformed}

(* --------------------------- serialization ---------------------------- *)
\* the keys of the documents, in the order sort_keys=True writes them
SortedKeys == <<"info", "name", "releases", "version">>

\* A text is the sequence of its lexical pieces; the file is their
\* concatenation.  A file opened and not written is the empty text.
EmptyText == <<>>

RECURSIVE Indent(_)
Indent(level) == IF level = 0 THEN <<>> ELSE <<"  ">> \o Indent(level - 1)

\* json.dump(v, indent=2, sort_keys=True, separators=(',', ':')), the text written
RECURSIVE JsonDump(_, _)
RECURSIVE DumpItems(_, _, _, _)
DumpItems(d, level, k, first) ==
    IF k > Len(SortedKeys) THEN <<>>
    ELSE IF SortedKeys[k] \notin DOMAIN d.val THEN DumpItems(d, level, k + 1, first)
    ELSE (IF first THEN <<>> ELSE <<",">>) \o <<"\n">> \o Indent(level + 1)
            \o <<"\"", SortedKeys[k], "\"", ":">>
            \o JsonDump(d.val[SortedKeys[k]], level + 1)
            \o DumpItems(d, level, k + 1, FALSE)
JsonDump(v, level) ==
    CASE v.type = "null" -> <<"null">>
      [] v.type = "string" -> <<"\"", v.val, "\"">>
      [] v.type = "array" -> <<"[", "]">>
      [] OTHER -> IF DOMAIN v.val = {} THEN <<"{", "}">>
                  ELSE <<"{">> \o DumpItems(v, level, 1, TRUE)
                           \o <<"\n">> \o Indent(level) \o <<"}">>

\* json.load: the value a text stands for, or ValueError.  White space
\* between the pieces is skipped.
RECURSIVE SkipSpace(_, _)
SkipSpace(text, p) ==
    IF p <= Len(text) /\ text[p] \in {"\n", "  "} THEN SkipSpace(text, p + 1) ELSE p

NoValue == [ok |-> FALSE]
Loaded(v, next) == [ok |-> TRUE, val |-> v, next |-> next]

RECURSIVE LoadValue(_, _)
RECURSIVE LoadMembers(_, _, _, _)
LoadMembers(text, p0, acc, first) ==
    LET p == SkipSpace(text, p0) IN
    IF p > Len(text) THEN NoValue
    ELSE IF text[p] = "}" THEN Loaded(PyDict(acc), p + 1)
    ELSE IF ~first /\ text[p] # "," THEN NoValue
    ELSE LET q == IF first THEN p ELSE SkipSpace(text, p + 1) IN
         IF q + 3 > Len(text) \/ text[q] # "\"" \/ text[q + 2] # "\"" \/ text[q + 3] # ":"
         THEN NoValue
         ELSE LET v == LoadValue(text, q + 4) IN
              IF ~v.ok THEN NoValue
              ELSE LoadMembers(text, v.next,
                               [x \in DOMAIN acc \cup {text[q + 1]} |->
                                   IF x = text[q + 1] THEN v.val ELSE acc[x]],
                               FALSE)
LoadValue(text, p0) ==
    LET p == SkipSpace(text, p0) IN
    IF p > Len(text) THEN NoValue
    ELSE CASE text[p] = "null" -> Loaded(PyNone, p + 1)
           [] text[p] = "\"" ->
                IF p + 2 <= Len(text) /\ text[p + 2] = "\""
                THEN Loaded(PyStr(text[p + 1]), p + 3) ELSE NoValue
           [] text[p] = "[" ->
                LET q == SkipSpace(text, p + 1) IN
                IF q <= Len(text) /\ text[q] = "]" THEN Loaded(PyList, q + 1) ELSE NoValue
           [] text[p] = "{" -> LoadMembers(text, p + 1, EmptyDict.val, TRUE)
           [] OTHER -> NoValue

JsonLoad(text) ==
    LET r == LoadValue(text, 1) IN
    IF r.ok /\ SkipSpace(text, r.next) = Len(text) + 1
    THEN [kind |-> "return", value |-> r.val]
    ELSE [kind |-> "raise", exc |-> "ValueError"]

(* ------------------------- homepage documents ------------------------- *)
\* An href is the sequence of the tokens of its text, "/" being one token.
Href(n) == PyStr(<<"/", "pypi", "/", n, "/", "1.0">>)
ShortHref == PyStr(<<"/", "pypi">>)
\* an href without the leading "/": its third segment is the version
RelativeHref(n) == PyStr(<<"pypi", "/", n, "/", "1.0">>)
Anchor(href) == [href |-> href]
\* link.get('href'): None for an anchor without the attribute
AnchorGet(link) == link.href

AnchorKinds == { Anchor(Href(n)) : n \in Names } \cup { Anchor(PyNone), Anchor(ShortHref) }

RECURSIVE SeqsUpTo(_, _)
SeqsUpTo(S, n) ==
    IF n = 0 THEN { <<>> }
    ELSE LET shorter == SeqsUpTo(S, n - 1)
         IN  shorter \cup { Append(s, x) : s \in shorter, x \in S }

\* response.content of the homepage: table is whether <table class="list"> is
\* there, anchors its <a> elements in document order, outside the <a>
\* elements elsewhere in the page
Html(table, anchors, outside) ==
    [type |-> "html", table |-> table, anchors |-> anchors, outside |-> outside]
EmptyContent == [type |-> "empty"]

HomepageBodies ==
    { Html(TRUE, as, <<>>) : as \in SeqsUpTo(AnchorKinds, MaxPackages) }
    \cup { Html(TRUE, <<Anchor(Href("a"))>>, <<Anchor(Href("b"))>>),
           Html(TRUE, <<Anchor(RelativeHref("a"))>>, <<>>),
           Html(FALSE, <<>>, <<Anchor(Href("a"))>>),
           EmptyContent }

\* variant: the result is not tested before it is parsed
TruthyAlways(v) == TRUE

\* bool(v) of "if html_to_parse:"
Truthy(v) == v.type \notin {"null", "empty"}

\* str.split('/'): the segments between the "/" tokens
RECURSIVE Split(_)
Split(s) ==
    IF s = <<>> THEN <<"">>
    ELSE LET rest == Split(Tail(s))
         IN  IF Head(s) = "/" THEN <<"">> \o rest
             ELSE <<Head(s) \o Head(rest)>> \o Tail(rest)

(* ------------------------------ network ------------------------------- *)
StatusCodes == {199, 200, 299, 300, 404}

\* what one requests.get can do: raise requests.exceptions.ConnectionError,
\* raise another exception, or return a response
ConnectionError == [type |-> "raise", exc |-> "ConnectionError"]
OtherError == [type |-> "raise", exc |-> "InvalidSchema"]
Response(status, body) == [type |-> "response", status_code |-> status, content |-> body]

OkCodes == { s \in StatusCodes : 200 <= s /\ s < 300 }

\* The body of a response outside 2xx is never read: such responses are
\* drawn with two bodies each, one the code could use and one it could not.
HomepageOutcomes ==
    {ConnectionError, OtherError}
    \cup { Response(s, b) : s \in OkCodes, b \in HomepageBodies }
    \cup { Response(s, b) : s \in StatusCodes \ OkCodes,
                            b \in {Html(TRUE, <<Anchor(Href("a"))>>, <<>>), EmptyContent} }
PackageOutcomes ==
    {ConnectionError, OtherError}
    \cup { Response(s, b) : s \in OkCodes, b \in PackageBodies }
    \cup { Response(s, b) : s \in StatusCodes \ OkCodes,
                            b \in {Metadata("a", "1"), Malformed} }

_retry_if_requests_connection_error(exception) == exception = "ConnectionError"

\* variant: the upper limit is included
StatusOkInclusive(response) == 200 <= response.status_code /\ response.status_code <= 300

\* 200 <= response.status_code < 300
StatusOk(response) == 200 <= response.status_code /\ response.status_code < 300

(* ---------------------------- file system ----------------------------- *)
\* what open(file_name, 'w') followed by json.dump can do
IoOutcomes == {"ok", "open_fails", "write_fails"}

(* ------------------------------- state -------------------------------- *)
VARIABLES
    pc,          \* where the process is: "scheduler" (line 222, about to call
                 \* run), "homepage", "extract", "fetch", "save", "sleep"
                 \* (inside run), "returned" (run returned, line 223),
                 \* "crashed" (an exception left __main__)
    runs,        \* calls of run() made by the scheduler loop
    frame,       \* the live local variables of run(): name -> value
    i,           \* position of "for package in package_list" (1-based, 0: no loop)
    attempt,     \* attempt number of the @retry call in progress
    outcomes,    \* observed: what requests.get did in each attempt of the fetch call
    errors,      \* observed: logger.error calls made by the fetch call
    response,    \* observed: what requests.get did in the step just taken
    requests,    \* observed: calls of requests.get made in this run
    slept,       \* integer seconds of the sleep() of the step just taken (0: none)
    lastLog,     \* the record last handed to the logger
    exception,   \* the exception that ended run(), and the call that raised it
    persisted,   \* per package handled in this run: the file written, or NotWritten
    disk,        \* base_save_path: file name -> text of the file
    dumped       \* history: file name -> the document last written in full

vars == <<pc, runs, frame, i, attempt, outcomes, errors, response, requests, slept,
          lastLog, exception, persisted, disk, dumped>>

NoRequest == [type |-> "none"]
NoException == [exc |-> "none", in |-> "none"]
NotWritten == "-"

EmptyFrame == [x \in {} |-> PyNone]
Bind(f, k, v) == [x \in DOMAIN f \cup {k} |-> IF x = k THEN v ELSE f[x]]
Unbind(f, k) == [x \in DOMAIN f \ {k} |-> f[x]]
Bound(k) == k \in DOMAIN frame

Info(msg) == [level |-> "info", msg |-> msg]
Error(msg, type) == [level |-> "error", msg |-> msg, error_type |-> type]

Return(v) == [kind |-> "return", value |-> v]
Raise(e) == [kind |-> "raise", exc |-> e]

(* ------------------------- the methods' bodies ------------------------ *)
\* variant: the except clause re-raises whatever it caught
GetPypiHomepageBodyReraiseAll(got) ==
    IF got.type = "response"
    THEN [res |-> IF StatusOk(got) THEN Return(got.content) ELSE Return(PyNone),
          logged |-> FALSE]
    ELSE [res |-> Raise(got.exc), logged |-> TRUE]

\* One execution of the body of _get_pypi_homepage, given what requests.get does.
\* logged is whether the except clause ran (one logger.error call).
GetPypiHomepageBody(got) ==
    IF got.type = "response"
    THEN [res |-> IF StatusOk(got) THEN Return(got.content) ELSE Return(PyNone),
          logged |-> FALSE]
    ELSE [res |-> IF got.exc = "ConnectionError" THEN Raise(got.exc) ELSE Return(PyNone),
          logged |-> TRUE]

\* variant: response.json() is called outside the try
GetJsonDataForPackageBodyDecodeOutsideTry(got) ==
    IF got.type = "response"
    THEN IF StatusOk(got)
         THEN IF got.content = Malformed
              THEN [res |-> Raise("ValueError"), logged |-> FALSE]
              ELSE [res |-> Return(got.content), logged |-> FALSE]
         ELSE [res |-> Return(PyNone), logged |-> FALSE]
    ELSE [res |-> IF got.exc = "ConnectionError" THEN Raise(got.exc) ELSE Return(PyNone),
          logged |-> TRUE]

\* One execution of the body of _get_json_data_for_package.  response.json()
\* raises on a body that does not decode, inside the try.
GetJsonDataForPackageBody(got) ==
    IF got.type = "response"
    THEN IF StatusOk(got)
         THEN IF got.content = Malformed
              THEN [res |-> Return(PyNone), logged |-> TRUE]
              ELSE [res |-> Return(got.content), logged |-> FALSE]
         ELSE [res |-> Return(PyNone), logged |-> FALSE]
    ELSE [res |-> IF got.exc = "ConnectionError" THEN Raise(got.exc) ELSE Return(PyNone),
          logged |-> TRUE]

\* variant: the attempt limit is off by one
ShouldRetryOneMore(res, attempt_number) ==
    /\ res.kind = "raise"
    /\ _retry_if_requests_connection_error(res.exc)
    /\ attempt_number <= stop_max_attempt_number

\* The @retry wrapper after one attempt: call the body again?
ShouldRetry(res, attempt_number) ==
    /\ res.kind = "raise"
    /\ _retry_if_requests_connection_error(res.exc)
    /\ attempt_number < stop_max_attempt_number

\* variant: the segment is taken one position too early
RECURSIVE PackageNamesSecondSegment(_)
PackageNamesSecondSegment(links) ==
    IF links = <<>> THEN Return(<<>>)
    ELSE LET href == AnchorGet(Head(links))
         IN  IF href.type = "null" THEN Raise("AttributeError")
             ELSE LET parts == Split(href.val)
                  IN  IF Len(parts) < 2 THEN Raise("IndexError")
                      ELSE LET rest == PackageNamesSecondSegment(Tail(links))
                           IN  IF rest.kind = "raise" THEN rest
                               ELSE Return(<<parts[2]>> \o rest.value)

\* _get_list_of_packages_to_retrieve: the names, or the exception of the
\* first anchor the comprehension fails on
RECURSIVE PackageNames(_)
PackageNames(links) ==
    IF links = <<>> THEN Return(<<>>)
    ELSE LET href == AnchorGet(Head(links))
         IN  IF href.type = "null" THEN Raise("AttributeError")
             ELSE LET parts == Split(href.val)
                  IN  IF Len(parts) < 3 THEN Raise("IndexError")
                      ELSE LET rest == PackageNames(Tail(links))
                           IN  IF rest.kind = "raise" THEN rest
                               ELSE Return(<<parts[3]>> \o rest.value)

\* variant: the anchors are taken from the whole page, soup.find_all('a')
GetListOfPackagesToRetrieveWholePage(html_to_parse) ==
    IF html_to_parse.type = "null" THEN Raise("TypeError")
    ELSE IF html_to_parse.type = "empty" THEN Return(<<>>)
    ELSE PackageNames(html_to_parse.anchors \o html_to_parse.outside)

\* BeautifulSoup(None) raises TypeError; soup.find('table', class_='list') is
\* None when the page has no such table, and None.find_all raises
GetListOfPackagesToRetrieve(html_to_parse) ==
    IF html_to_parse.type = "null" THEN Raise("TypeError")
    ELSE IF html_to_parse.type = "empty" THEN Raise("AttributeError")
    ELSE IF ~html_to_parse.table THEN Raise("AttributeError")
    ELSE PackageNames(html_to_parse.anchors)

\* file_name of _save_package_data_to_disk
FileName(package_name) == base_save_path \o "/" \o Format(package_name) \o ".json"

\* variant: the file is opened with 'a', the text is added to what is there
WriteFileAppend(d, file_name, text) ==
    [f \in DOMAIN d \cup {file_name} |->
        IF f = file_name THEN (IF f \in DOMAIN d THEN d[f] \o text ELSE text) ELSE d[f]]

\* variant: a file that is there is left as it is
WriteFileIfAbsent(d, file_name, text) ==
    [f \in DOMAIN d \cup {file_name} |-> IF f \in DOMAIN d THEN d[f] ELSE text]

\* open(file_name, 'w') followed by a complete write of text
WriteFile(d, file_name, text) ==
    [f \in DOMAIN d \cup {file_name} |-> IF f = file_name THEN text ELSE d[f]]

\* variant: the method ends without "return True"
SavePackageDataToDiskReturnsNothing(package_data, io, d) ==
    IF ~IsDict(package_data) \/ ~IsDict(DictGet(package_data, "info", EmptyDict))
    THEN [res |-> Raise("AttributeError"), disk |-> d, file |-> NotWritten]
    ELSE LET file_name == FileName(DictGet(DictGet(package_data, "info", EmptyDict),
                                           "name", PyNone))
         IN  IF io = "ok"
             THEN [res |-> Return(FALSE),
                   disk |-> WriteFile(d, file_name, JsonDump(package_data, 0)),
                   file |-> file_name]
             ELSE [res |-> Raise("IOError"), disk |-> d, file |-> file_name]

\* _save_package_data_to_disk: the result, the directory afterwards and the
\* file it opened.  open(file_name, 'w') truncates the file before json.dump
\* writes it.
SavePackageDataToDisk(package_data, io, d) ==
    IF ~IsDict(package_data)
    THEN [res |-> Raise("AttributeError"), disk |-> d, file |-> NotWritten]
    ELSE LET info == DictGet(package_data, "info", EmptyDict)
         IN  IF ~IsDict(info)
             THEN [res |-> Raise("AttributeError"), disk |-> d, file |-> NotWritten]
             ELSE LET package_name == DictGet(info, "name", PyNone)
                      file_name == FileName(package_name)
                  IN  CASE io = "open_fails" ->
                             [res |-> Raise("IOError"), disk |-> d, file |-> file_name]
                        [] io = "write_fails" ->
                             [res |-> Raise("IOError"),
                              disk |-> WriteFile(d, file_name, EmptyText), file |-> file_name]
                        [] OTHER ->
                             [res |-> Return(TRUE),
                              disk |-> WriteFile(d, file_name, JsonDump(package_data, 0)),
                              file |-> file_name]

(* ------------------------------ actions ------------------------------- *)
Init ==
    /\ pc = "scheduler"
    /\ runs = 0
    /\ frame = EmptyFrame
    /\ i = 0
    /\ attempt = 0
    /\ outcomes = <<>>
    /\ errors = 0
    /\ response = NoRequest
    /\ requests = 0
    /\ slept = 0
    /\ lastLog = Info("")
    /\ exception = NoException
    /\ persisted = <<>>
    /\ disk = [f \in {} |-> EmptyText]
    /\ dumped = [f \in {} |-> PyNone]

\* an exception nothing catches: it leaves run() and the while loop of __main__
Crash(e, where) ==
    /\ pc' = "crashed"
    /\ exception' = [exc |-> e, in |-> where]

\* an attempt as the caller of requests.get can tell it apart
OutcomeKind(got) ==
    IF got.type = "response"
    THEN (IF 200 <= got.status_code /\ got.status_code < 300 THEN "2xx" ELSE "not 2xx")
    ELSE got.exc

\* The observation of a fetch call lasts until the step after it returns.
NoFetch ==
    /\ outcomes' = <<>>
    /\ errors' = 0
    /\ response' = NoRequest
    /\ UNCHANGED requests

\* One attempt of a fetch call as a test double of requests and of the logger
\* sees it (mock side_effect and call_count).  observe is what is looked at:
\* "calls" (the attempts of each fetch call and the errors logged), "requests"
\* (the number of requests.get calls of the run) or "none".
Observe(observe, got, logged) ==
    CASE observe = "calls" ->
            /\ response' = got
            /\ outcomes' = Append(outcomes, OutcomeKind(got))
            /\ errors' = errors + (IF logged THEN 1 ELSE 0)
            /\ UNCHANGED requests
      [] observe = "requests" ->
            /\ requests' = requests + 1
            /\ outcomes' = <<>>
            /\ errors' = 0
            /\ response' = NoRequest
      [] OTHER -> NoFetch

\* __main__ line 222 and run() lines 176-178
RunStart ==
    /\ pc = "scheduler"
    /\ runs < MaxRuns
    /\ runs' = runs + 1
    /\ frame' = EmptyFrame
    /\ pc' = "homepage"
    /\ attempt' = 1
    /\ lastLog' = Info("Starting update")
    /\ persisted' = <<>>
    /\ i' = 0
    /\ slept' = 0
    /\ outcomes' = <<>>
    /\ errors' = 0
    /\ response' = NoRequest
    /\ requests' = 0
    /\ UNCHANGED <<exception, disk, dumped>>

\* run() lines 180-182: one attempt of the retried _get_pypi_homepage and, when
\* the call returns, the test of its result
GetHomepageStep(observe) ==
    /\ pc = "homepage"
    /\ \E got \in HomepageOutcomes :
        LET r == GetPypiHomepageBody(got) IN
        /\ Observe(observe, got, r.logged)
        /\ lastLog' = IF r.logged
                      THEN Error("Caught exception retrieving the PyPI homepage", "RequestsError")
                      ELSE Info("Getting the PyPI homepage")
        /\ IF ShouldRetry(r.res, attempt)
           THEN /\ attempt' = attempt + 1
                /\ UNCHANGED <<pc, frame, exception>>
           ELSE /\ attempt' = 0
                /\ IF r.res.kind = "raise"
                   THEN /\ Crash(r.res.exc, "_get_pypi_homepage")
                        /\ UNCHANGED frame
                   ELSE /\ frame' = Bind(frame, "html_to_parse", r.res.value)
                        /\ pc' = IF Truthy(r.res.value) THEN "extract" ELSE "returned"
                        /\ UNCHANGED exception
    /\ slept' = 0
    /\ UNCHANGED <<runs, i, persisted, disk, dumped>>

\* variant: the loop is entered without the test of len(package_list)
RunExtractNoLengthTest ==
    /\ pc = "extract"
    /\ LET r == GetListOfPackagesToRetrieve(frame.html_to_parse) IN
        IF r.kind = "raise"
        THEN /\ Crash(r.exc, "_get_list_of_packages_to_retrieve")
             /\ lastLog' = Info("Extracting package names")
             /\ UNCHANGED <<frame, i, attempt>>
        ELSE /\ frame' = Bind(Bind(frame, "package_list", r.value), "files_written", 0)
             /\ UNCHANGED exception
             /\ IF Len(r.value) > 0
                THEN /\ lastLog' = Info("Beginning package information retrieval")
                     /\ i' = 1
                     /\ attempt' = 1
                     /\ pc' = "fetch"
                ELSE /\ lastLog' = Info("0 packages retrieved in this run")
                     /\ pc' = "returned"
                     /\ UNCHANGED <<i, attempt>>
    /\ slept' = 0
    /\ NoFetch
    /\ UNCHANGED <<runs, persisted, disk, dumped>>

\* run() lines 183-188 and 204-205
RunExtract ==
    /\ pc = "extract"
    /\ LET r == GetListOfPackagesToRetrieve(frame.html_to_parse) IN
        IF r.kind = "raise"
        THEN /\ Crash(r.exc, "_get_list_of_packages_to_retrieve")
             /\ lastLog' = Info("Extracting package names")
             /\ UNCHANGED <<frame, i, attempt>>
        ELSE IF Len(r.value) > 0
        THEN /\ frame' = Bind(Bind(frame, "package_list", r.value), "files_written", 0)
             /\ lastLog' = Info("Beginning package information retrieval")
             /\ i' = 1
             /\ attempt' = 1
             /\ pc' = "fetch"
             /\ UNCHANGED exception
        ELSE /\ frame' = Bind(frame, "package_list", r.value)
             /\ lastLog' = Info("No new packages found")
             /\ pc' = "returned"
             /\ UNCHANGED <<i, attempt, exception>>
    /\ slept' = 0
    /\ NoFetch
    /\ UNCHANGED <<runs, persisted, disk, dumped>>

\* run() lines 192-195: one attempt of the retried _get_json_data_for_package
\* for package_list[i] and, when the call returns, the test of its result
GetPackageStep(observe) ==
    /\ pc = "fetch"
    /\ \E got \in PackageOutcomes :
        LET r == GetJsonDataForPackageBody(got) IN
        /\ Observe(observe, got, r.logged)
        /\ lastLog' = IF r.logged
                      THEN Error("Caught exception retrieving package data", "RequestsError")
                      ELSE Info("Retrieving data for: " \o frame.package_list[i])
        /\ IF ShouldRetry(r.res, attempt)
           THEN /\ attempt' = attempt + 1
                /\ UNCHANGED <<pc, frame, exception, persisted>>
           ELSE /\ attempt' = 0
                /\ IF r.res.kind = "raise"
                   THEN /\ Crash(r.res.exc, "_get_json_data_for_package")
                        /\ UNCHANGED <<frame, persisted>>
                   ELSE /\ frame' = Bind(frame, "package_data_json", r.res.value)
                        /\ IF r.res.value # PyNone
                           THEN /\ pc' = "save"
                                /\ UNCHANGED persisted
                           ELSE /\ pc' = "sleep"
                                /\ persisted' = Append(persisted, NotWritten)
                        /\ UNCHANGED exception
    /\ slept' = 0
    /\ UNCHANGED <<runs, i, disk, dumped>>

\* run() lines 196-197
RunSave ==
    /\ pc = "save"
    /\ \E io \in IoOutcomes :
        LET r == SavePackageDataToDisk(frame.package_data_json, io, disk) IN
        /\ disk' = r.disk
        /\ IF r.res.kind = "raise"
           THEN /\ Crash(r.res.exc, "_save_package_data_to_disk")
                /\ lastLog' = Error("Caught exception retrieving the PyPI homepage", "JSONError")
                /\ UNCHANGED <<frame, persisted, dumped>>
           ELSE /\ frame' = IF r.res.value
                            THEN Bind(frame, "files_written", frame.files_written + 1)
                            ELSE frame
                /\ persisted' = Append(persisted, r.file)
                /\ dumped' = [f \in DOMAIN dumped \cup {r.file} |->
                                 IF f = r.file THEN frame.package_data_json ELSE dumped[f]]
                /\ lastLog' = Info("Saving data for: " \o r.file)
                /\ pc' = "sleep"
                /\ UNCHANGED exception
    /\ slept' = 0
    /\ NoFetch
    /\ UNCHANGED <<runs, i, attempt>>

\* variant: the message is logged without the count
RetrievedMessageWithoutCount(files_written) == "packages retrieved in this run"

\* "{} packages retrieved in this run".format(files_written)
RetrievedMessage(files_written) ==
    ToString(files_written) \o " packages retrieved in this run"

\* variant: random.randint(0, 3)
PacingSecondsFromZero == 0..3

\* random.randint(1, 3) of line 200
PacingSeconds == 1..3

\* variant: the loop passes over the packages whose file is in the directory
RunSleepSkipsExisting ==
    /\ pc = "sleep"
    /\ \E t \in PacingSeconds : slept' = t
    /\ LET rest == { k \in (i + 1)..Len(frame.package_list) :
                       FileName(PyStr(frame.package_list[k])) \notin DOMAIN disk }
       IN  IF rest # {}
           THEN /\ i' = CHOOSE k \in rest : \A j \in rest : k <= j
                /\ attempt' = 1
                /\ pc' = "fetch"
                /\ frame' = Unbind(frame, "package_data_json")
                /\ UNCHANGED lastLog
           ELSE /\ pc' = "returned"
                /\ frame' = Unbind(frame, "package_data_json")
                /\ lastLog' = Info(ToString(frame.files_written) \o " packages retrieved in this run")
                /\ UNCHANGED <<i, attempt>>
    /\ NoFetch
    /\ UNCHANGED <<runs, exception, persisted, disk, dumped>>

\* run() lines 199-203: the pacing sleep, then the next package or the end of the loop
RunSleep ==
    /\ pc = "sleep"
    /\ \E t \in PacingSeconds : slept' = t
    /\ IF i < Len(frame.package_list)
       THEN /\ i' = i + 1
            /\ attempt' = 1
            /\ pc' = "fetch"
            /\ frame' = Unbind(frame, "package_data_json")
            /\ UNCHANGED lastLog
       ELSE /\ pc' = "returned"
            /\ frame' = Unbind(frame, "package_data_json")
            /\ lastLog' = Info(RetrievedMessage(frame.files_written))
            /\ UNCHANGED <<i, attempt>>
    /\ NoFetch
    /\ UNCHANGED <<runs, exception, persisted, disk, dumped>>

\* random.randint(7, 9) of line 223
MinutesToNextRun == 7..9

\* __main__ lines 223-224: run() returned, sleep until the next run
MainSleep ==
    /\ pc = "returned"
    /\ \E m \in MinutesToNextRun : slept' = m * 60
    /\ pc' = "scheduler"
    /\ frame' = EmptyFrame
    /\ i' = 0
    /\ persisted' = <<>>
    /\ NoFetch
    /\ UNCHANGED <<runs, attempt, lastLog, exception, disk, dumped>>

RunGetHomepage == GetHomepageStep("none")
RunGetPackage == GetPackageStep("none")

Next ==
    \/ RunStart
    \/ RunGetHomepage
    \/ RunExtract
    \/ RunGetPackage
    \/ RunSave
    \/ RunSleep
    \/ MainSleep

\* the scheduler loop calling run() again and again
Spec == Init /\ [][Next]_vars

(* ------------------- one run with the fetches observed ---------------- *)
FirstRun == runs = 0 /\ RunStart
ObservedGetHomepage == GetHomepageStep("calls")
ObservedGetPackage == GetPackageStep("calls")

FetchNext ==
    \/ FirstRun
    \/ ObservedGetHomepage
    \/ RunExtract
    \/ ObservedGetPackage
    \/ RunSave
    \/ RunSleep

\* one call of run(), requests and the logger replaced by test doubles
FetchSpec == Init /\ [][FetchNext]_vars

(* ------------------- one run with the requests counted ---------------- *)
CountedGetHomepage == GetHomepageStep("requests")
CountedGetPackage == GetPackageStep("requests")

BudgetNext ==
    \/ FirstRun
    \/ CountedGetHomepage
    \/ RunExtract
    \/ CountedGetPackage
    \/ RunSave
    \/ RunSleep

\* one call of run(), the calls of requests.get counted
BudgetSpec == Init /\ [][BudgetNext]_vars

(* ============================== claims ================================ *)
\* the document lacks the canonical name: no info, or an info without name
LacksName(d) ==
    /\ IsDict(d)
    /\ IsDict(DictGet(d, "info", EmptyDict))
    /\ DictGet(DictGet(d, "info", EmptyDict), "name", PyNone) = PyNone

\* the number of successful writes run() has counted so far
SuccessCount(f) == IF "files_written" \in DOMAIN f THEN f.files_written ELSE 0

\* the fetch call observed is of a package (run() is in its loop) or of the homepage
PackageFetch == Bound("package_list")

\* n connection errors in a row
ConnectionErrors(n) == [k \in 1..n |-> "ConnectionError"]

\* C1: a failure of _save_package_data_to_disk for one package (an I/O
\* error, a document that is no usable mapping) does not end the run: run()
\* goes on to the pacing sleep and the later packages.
C1_PersistFailureDoesNotAbort ==
    ~(pc = "crashed" /\ exception.in = "_save_package_data_to_disk")

\* C2: a package's metadata fetch that exhausts its retries does not end the
\* run: the connection error does not leave run().
C2_PackageFetchExhaustionAbsorbed ==
    ~(pc = "crashed" /\ exception.in = "_get_json_data_for_package")

\* C3: in both fetch calls, when the first n < 5 attempts raise a connection
\* error and the next gets a successful response, the call returns that
\* response's data after exactly n + 1 requests and n error log entries; when
\* the first 5 attempts raise a connection error the call makes exactly 5
\* requests and the connection error reaches the caller.
C3_RetryOnConnectionError ==
    /\ \A n \in 0..(stop_max_attempt_number - 1) :
          ( /\ Len(outcomes) > n
            /\ SubSeq(outcomes, 1, n) = ConnectionErrors(n)
            /\ outcomes[n + 1] = "2xx" )
          => /\ Len(outcomes) = n + 1
             /\ attempt = 0
             /\ pc # "crashed"
             /\ response.content # Malformed
                  => /\ errors = n
                     /\ IF PackageFetch
                        THEN Bound("package_data_json")
                             /\ frame.package_data_json = response.content
                        ELSE Bound("html_to_parse")
                             /\ frame.html_to_parse = response.content
    /\ ( /\ Len(outcomes) >= stop_max_attempt_number
         /\ SubSeq(outcomes, 1, stop_max_attempt_number)
               = ConnectionErrors(stop_max_attempt_number) )
       => /\ Len(outcomes) = stop_max_attempt_number
          /\ pc = "crashed"
          /\ exception.exc = "ConnectionError"

C3_Witness ==
    /\ outcomes = <<"ConnectionError", "ConnectionError", "2xx">>
    /\ errors = 2
    /\ pc = "save"
    /\ frame.package_data_json = Metadata("a", "1")

\* C4: an attempt that gets a response outside 2xx, or that raises anything
\* but a connection error (requests.get itself, or response.json() on a body
\* that does not decode), is the last of its fetch call: the call returns
\* None and nothing is raised to the caller; every attempt before the last
\* one of a call ended in a connection error.
C4_RetryOnlyOnConnectionError ==
    \A k \in 1..Len(outcomes) :
        /\ k < Len(outcomes) => outcomes[k] = "ConnectionError"
        /\ ( \/ outcomes[k] \notin {"ConnectionError", "2xx"}
             \/ /\ k = Len(outcomes)
                /\ outcomes[k] = "2xx"
                /\ PackageFetch
                /\ response.content = Malformed )
              => /\ k = Len(outcomes)
                 /\ attempt = 0
                 /\ pc # "crashed"
                 /\ IF PackageFetch
                    THEN Bound("package_data_json") /\ frame.package_data_json = PyNone
                    ELSE Bound("html_to_parse") /\ frame.html_to_parse = PyNone

C4_Witness ==
    /\ outcomes = <<"ConnectionError", "InvalidSchema">>
    /\ ~PackageFetch
    /\ pc = "returned"
    /\ frame.html_to_parse = PyNone

\* C5: whatever the status code of the homepage response, _get_pypi_homepage
\* returns the body when 200 <= status < 300 and None otherwise.
C5_HomepageStatus ==
    (response.type = "response" /\ ~PackageFetch)
    => /\ attempt = 0
       /\ pc \in {"extract", "returned"}
       /\ Bound("html_to_parse")
       /\ frame.html_to_parse =
             IF 200 <= response.status_code /\ response.status_code < 300
             THEN response.content
             ELSE PyNone

C5_Witness ==
    /\ response.type = "response"
    /\ response.status_code = 299
    /\ pc = "extract"
    /\ frame.html_to_parse = response.content
    /\ Len(frame.html_to_parse.anchors) = MaxPackages

\* C6: _get_json_data_for_package returns the decoded document when the
\* status is in [200,300) and the body decodes, and returns None, raising
\* nothing, when the status is outside [200,300) or the body does not decode.
C6_PackageStatusAndDecode ==
    (response.type = "response" /\ PackageFetch)
    => /\ attempt = 0
       /\ pc \in {"save", "sleep"}
       /\ Bound("package_data_json")
       /\ frame.package_data_json =
             IF /\ 200 <= response.status_code /\ response.status_code < 300
                /\ response.content # Malformed
             THEN response.content
             ELSE PyNone

C6_Witness ==
    /\ response = Response(200, Malformed)
    /\ PackageFetch
    /\ pc = "sleep"
    /\ frame.package_data_json = PyNone

\* C7: persisting a document that lacks the canonical name is a failure: it
\* is not counted as written and it leaves no file on disk.
C7_NamelessDocumentNotPersisted ==
    /\ FileName(PyNone) \notin DOMAIN disk
    /\ \A k \in 1..Len(persisted) : persisted[k] # FileName(PyNone)
    /\ (pc = "sleep" /\ Bound("package_data_json"))
          => ~LacksName(frame.package_data_json)

\* C8: a homepage fetch that exhausts its retries ends that run and leaves
\* the scheduler loop alive, so that it starts another run.
C8_SchedulerSurvivesHomepageExhaustion ==
    ~(pc = "crashed" /\ exception.in = "_get_pypi_homepage")

\* C9: at the end of every run over distinct package names whose fetches each
\* returned None or a document named after the package, the counter logged is
\* the number of packages of that run that were fetched and written; the files
\* written are on disk, and they are all the files when the directory was
\* empty before the run (the first run).
C9_CounterCountsThisRun ==
    ( /\ pc = "returned"
      /\ Bound("files_written")
      /\ \A j, k \in 1..Len(frame.package_list) :
            frame.package_list[j] = frame.package_list[k] => j = k
      /\ \A k \in 1..Len(persisted) :
            persisted[k] \in {NotWritten, FileName(PyStr(frame.package_list[k]))} )
    => /\ Len(persisted) = Len(frame.package_list)
       /\ frame.files_written
             = Cardinality({ k \in 1..Len(persisted) : persisted[k] # NotWritten })
       /\ lastLog = Info(ToString(frame.files_written) \o " packages retrieved in this run")
       /\ \A k \in 1..Len(persisted) :
             persisted[k] # NotWritten => persisted[k] \in DOMAIN disk
       /\ runs = 1 => Cardinality(DOMAIN disk) = frame.files_written

C9_Witness ==
    /\ pc = "returned"
    /\ runs = 2
    /\ Bound("files_written")
    /\ frame.package_list = <<"a", "b">>
    /\ persisted = <<NotWritten, FileName(PyStr("b"))>>
    /\ frame.files_written = 1
    /\ Cardinality(DOMAIN disk) = 2

\* C10: when the homepage fetch returns None the run ends at once: no link
\* extraction, no package fetch, no file written, no success counted.
C10_NoHomepageEndsRun ==
    [][ ( /\ pc = "homepage"
          /\ "html_to_parse" \in DOMAIN frame'
          /\ frame'.html_to_parse = PyNone )
        => /\ pc' = "returned"
           /\ disk' = disk
           /\ persisted' = <<>>
           /\ "package_list" \notin DOMAIN frame'
           /\ SuccessCount(frame') = 0 ]_vars

C10_Witness ==
    /\ pc = "returned"
    /\ Bound("html_to_parse")
    /\ frame.html_to_parse = PyNone
    /\ ~Bound("package_list")
    /\ runs = 2
    /\ DOMAIN disk # {}

\* C11: when the extractor returns an empty list, run() logs "No new packages
\* found" and returns: no package fetch, no file written, no success counted.
C11_EmptyListingEndsRun ==
    [][ ( /\ pc = "extract"
          /\ "package_list" \in DOMAIN frame'
          /\ frame'.package_list = <<>> )
        => /\ pc' = "returned"
           /\ lastLog' = Info("No new packages found")
           /\ disk' = disk
           /\ persisted' = <<>>
           /\ i' = 0
           /\ SuccessCount(frame') = 0 ]_vars

C11_Witness ==
    /\ pc = "returned"
    /\ Bound("package_list")
    /\ frame.package_list = <<>>
    /\ frame.html_to_parse = Html(TRUE, <<>>, <<>>)
    /\ lastLog = Info("No new packages found")

\* C12: when the homepage document has no listing table, the extraction
\* raises and ends the run: no package list is bound, no package is fetched
\* and no file is written.
C12_NoListingIsFatal ==
    [][ ( /\ pc = "extract"
          /\ ~frame.html_to_parse.table )
        => /\ pc' = "crashed"
           /\ exception'.in = "_get_list_of_packages_to_retrieve"
           /\ "package_list" \notin DOMAIN frame'
           /\ disk' = disk
           /\ persisted' = <<>> ]_vars

C12_Witness ==
    /\ pc = "crashed"
    /\ exception = [exc |-> "AttributeError", in |-> "_get_list_of_packages_to_retrieve"]
    /\ frame.html_to_parse = Html(FALSE, <<>>, <<Anchor(Href("a"))>>)

\* the anchor has an href of at least three "/"-separated segments
WellFormed(link) == link \in { Anchor(Href(n)) : n \in Names }
                            \cup { Anchor(RelativeHref(n)) : n \in Names }
\* the third segment of a well-formed anchor's href, read off its text
ThirdSegment(link) ==
    IF link.href.val[1] = "/" THEN link.href.val[4] ELSE link.href.val[5]

\* C13: a listing that mixes anchors without href and anchors with a
\* well-formed href does not make the extraction fail: the anchors without
\* href are skipped.
C13_AnchorsWithoutHrefSkipped ==
    ( /\ Bound("html_to_parse")
      /\ frame.html_to_parse.type = "html"
      /\ frame.html_to_parse.table
      /\ \A k \in 1..Len(frame.html_to_parse.anchors) :
            \/ frame.html_to_parse.anchors[k] = Anchor(PyNone)
            \/ WellFormed(frame.html_to_parse.anchors[k])
      /\ \E k \in 1..Len(frame.html_to_parse.anchors) :
            frame.html_to_parse.anchors[k] = Anchor(PyNone)
      /\ \E k \in 1..Len(frame.html_to_parse.anchors) :
            WellFormed(frame.html_to_parse.anchors[k]) )
    => ~(pc = "crashed" /\ exception.in = "_get_list_of_packages_to_retrieve")

\* C14: for a listing of k anchors with well-formed hrefs the extraction
\* returns k names, the j-th being the third segment of the j-th anchor's
\* href; the anchors outside the listing table add nothing.
C14_NamesAreThirdSegments ==
    ( /\ Bound("html_to_parse")
      /\ pc \notin {"homepage", "extract"}
      /\ frame.html_to_parse.type = "html"
      /\ frame.html_to_parse.table
      /\ \A k \in 1..Len(frame.html_to_parse.anchors) :
            WellFormed(frame.html_to_parse.anchors[k]) )
    => /\ Bound("package_list")
       /\ Len(frame.package_list) = Len(frame.html_to_parse.anchors)
       /\ \A k \in 1..Len(frame.package_list) :
             frame.package_list[k] = ThirdSegment(frame.html_to_parse.anchors[k])

C14_Witness ==
    /\ pc = "fetch"
    /\ frame.html_to_parse = Html(TRUE, <<Anchor(Href("a"))>>, <<Anchor(Href("b"))>>)
    /\ frame.package_list = <<"a">>

C14_WitnessRelative ==
    /\ pc = "fetch"
    /\ frame.html_to_parse = Html(TRUE, <<Anchor(RelativeHref("a"))>>, <<>>)
    /\ frame.package_list = <<"1.0">>

\* the document has a canonical name: d["info"]["name"] is a string
HasName(d) ==
    /\ IsDict(d)
    /\ IsDict(DictGet(d, "info", EmptyDict))
    /\ DictGet(DictGet(d, "info", EmptyDict), "name", PyNone).type = "string"

\* C15: persisting a document d with canonical name n returns True (unless
\* the file system fails) and leaves base_save_path/n.json, whose text loads
\* back to d; the other files are untouched, and persisting d again leaves
\* the directory as it is.
C15_PersistRoundTrip ==
    [][ ( /\ pc = "save"
          /\ HasName(frame.package_data_json) )
        => LET d == frame.package_data_json
               file == base_save_path \o "/" \o d.val.info.val.name.val \o ".json"
           IN  \/ UNCHANGED vars
               \/ pc' = "crashed" /\ exception'.exc = "IOError"
               \/ /\ pc' = "sleep"
                  /\ frame'.files_written = frame.files_written + 1
                  /\ DOMAIN disk' = DOMAIN disk \cup {file}
                  /\ JsonLoad(disk'[file]) = Return(d)
                  /\ \A f \in DOMAIN disk : f # file => disk'[f] = disk[f]
                  /\ SavePackageDataToDisk(d, "ok", disk').res = Return(TRUE)
                  /\ SavePackageDataToDisk(d, "ok", disk').disk = disk' ]_vars

\* a file is written for the second time in a run, with another version
C15_Witness ==
    /\ pc = "sleep"
    /\ runs = 2
    /\ frame.package_data_json = Metadata("a", "2")
    /\ persisted = <<"data/a.json", "data/a.json">>
    /\ JsonLoad(disk["data/a.json"]) = Return(Metadata("a", "2"))
    /\ "data/b.json" \in DOMAIN disk

\* the text json.dump writes for each document
TextOf == [d \in Documents |-> JsonDump(d, 0)]

C17_SequentialInOrder ==
    [][ /\ (pc' = "fetch" /\ pc # "fetch")
              => /\ pc \in {"extract", "sleep"}
                 /\ i' = i + 1
                 /\ attempt' = 1
                 /\ Len(persisted') = i
        /\ pc = "fetch"
              => /\ i' = i
                 /\ pc' \in {"fetch", "save", "sleep", "crashed"}
                 /\ lastLog'.level = "info"
                       => lastLog' = Info("Retrieving data for: " \o frame.package_list[i])
                 /\ pc' = "save" => frame'.package_data_json # PyNone
                 /\ pc' = "sleep" => frame'.package_data_json = PyNone
        /\ pc' = "save" => pc \in {"fetch", "save"}
        /\ pc = "save"
              => /\ i' = i
                 /\ pc' \in {"save", "sleep", "crashed"}
                 /\ pc' = "sleep" => Len(persisted') = i
        /\ pc = "sleep"
              => /\ pc' \in {"sleep", "fetch", "returned"}
                 /\ pc' = "returned" => /\ i = Len(frame.package_list)
                                        /\ Len(persisted) = Len(frame.package_list) ]_vars

\* the second run fetches the second name although both files are there
C17_Witness ==
    /\ pc = "fetch"
    /\ runs = 2
    /\ i = 2
    /\ frame.package_list = <<"a", "b">>
    /\ {"data/a.json", "data/b.json"} \subseteq DOMAIN disk
    /\ persisted = <<"data/a.json">>

\* C18: every package handled without an exception, with a document or
\* without, is followed by one pacing sleep, of 1, 2 or 3 seconds plus a
\* fraction, before the next fetch starts; no fetch of a later package
\* starts from anywhere else.
C18_PacingBetweenPackages ==
    [][ /\ (pc \in {"fetch", "save"} /\ pc' \notin {"fetch", "save", "crashed"})
              => pc' = "sleep"
        /\ (pc' = "fetch" /\ pc \notin {"fetch", "extract"})
              => /\ pc = "sleep"
                 /\ slept' \in {1, 2, 3}
        /\ (pc = "sleep" /\ pc' # "sleep")
              => /\ slept' \in {1, 2, 3}
                 /\ pc' \in {"fetch", "returned"}
        /\ (i' # i /\ i # 0 /\ i' # 0)
              => /\ pc = "sleep"
                 /\ i' = i + 1 ]_vars

\* the first package had no document; the second fetch starts after a pause
C18_Witness ==
    /\ pc = "fetch"
    /\ i = 2
    /\ attempt = 1
    /\ slept = 3
    /\ persisted = <<NotWritten>>

\* where the run is: the part of run(), the position in the list, and the
\* step at that position (the attempt number, then the save, then the sleep)
Position ==
    <<CASE pc = "scheduler" -> 0
        [] pc = "homepage" -> 1
        [] pc = "extract" -> 2
        [] pc \in {"fetch", "save", "sleep"} -> 3
        [] OTHER -> 4,
      i,
      CASE pc \in {"homepage", "fetch"} -> attempt
        [] pc = "save" -> 6
        [] pc = "sleep" -> 7
        [] OTHER -> 0>>

LexLess(p, q) ==
    \/ p[1] < q[1]
    \/ p[1] = q[1] /\ p[2] < q[2]
    \/ p[1] = q[1] /\ p[2] = q[2] /\ p[3] < q[3]

C19_Budget ==
    /\ attempt <= 5
    /\ pc \in {"homepage", "fetch"} => attempt >= 1
    /\ requests <= 5 * (1 + i)
    /\ Bound("package_list") => /\ i <= Len(frame.package_list)
                                /\ requests <= 5 * (1 + Len(frame.package_list))
    /\ pc = "scheduler" /\ runs = 0 => ENABLED FirstRun
    /\ pc = "homepage" => ENABLED CountedGetHomepage
    /\ pc = "extract" => ENABLED RunExtract
    /\ pc = "fetch" => ENABLED CountedGetPackage
    /\ pc = "save" => ENABLED RunSave
    /\ pc = "sleep" => ENABLED RunSleep

C19_Progress ==
    /\ LexLess(Position, Position')
    /\ (pc' \in {"homepage", "fetch"} /\ pc' # pc) => attempt' = 1
    /\ requests' - requests = (IF pc \in {"homepage", "fetch"} THEN 1 ELSE 0)

\* C19: a run ends, by returning or by an exception: every step moves it
\* forward in a bounded order and no state short of the end is stuck.  Every
\* fetch call starts at attempt 1 and makes at most 5 requests, so a run over
\* n packages makes at most 5 * (1 + n) requests.
C19_RunTerminatesWithinBudget ==
    []C19_Budget /\ [][C19_Progress]_vars

\* the homepage and the first package took five requests each, four of them
\* failed; the second package is at its fifth
C19_Witness ==
    /\ requests = 15
    /\ i = 2
    /\ pc = "crashed"
    /\ exception = [exc |-> "ConnectionError", in |-> "_get_json_data_for_package"]

C20_WitnessNoHomepage ==
    /\ pc = "returned"
    /\ Bound("html_to_parse")
    /\ frame.html_to_parse = PyNone
    /\ lastLog.level = "info"

====
